---- MODULE Spec2Model ----
(***************************************************************************)
(* Model of the VPSie docker-machine driver (src/driver/vpsie.go).         *)
(*                                                                         *)
(* The driver record d is the Go struct Driver (with the embedded          *)
(* BaseDriver's IPAddress).  The provider REST client, the SSH transport   *)
(* and the key generator are the environment: every reply they can give    *)
(* is drawn from a small set by the action that issues the request.        *)
(* The one-shot operations are one action each.  Create blocks in two      *)
(* poll loops, so it is a sequence of steps, one per external request,     *)
(* and no other operation runs while pc # "idle" (the driver is called     *)
(* by one dispatcher, one call at a time).                                 *)
(*                                                                         *)
(* call, reply, cat and log are history variables: the operation that ran  *)
(* last (or is running), what it returned, the provider replies it saw     *)
(* and the requests it issued, in order.  They are reset when an           *)
(* operation is invoked.                                                   *)
(***************************************************************************)
EXTENDS Integers, Sequences, FiniteSets, TLC

VARIABLES d, pc, attempts, loc, call, reply, cat, log

vars == <<d, pc, attempts, loc, call, reply, cat, log>>

----------------------------------------------------------------------------
(* Bounds and value sets *)

\* polls one mcnutils.WaitFor makes before it gives up
MaxAttempts == 3

defaultOfferID == "9a0e49c6-9f22-11e3-8af5-005056aa8af7"
defaultDatacenterID == "55f06b85-c9ee-11e3-9845-005056aa8af7"
defaultImageID == "75401d7d-d9d3-11e3-b135-005056aa8af7"

ImageIds == {defaultImageID, "img-x"}
DatacenterIds == {defaultDatacenterID, "dc-x"}
OfferIds == {defaultOfferID, "offer-x"}
ClientIds == {"", "client"}
ClientSecrets == {"", "secret"}

InstanceIds == {"vm-1", "vm-2"}
Addresses == {"", "0", "10.0.0.1"}
Passwords == {"pw"}
PublicKeys == {"ssh-rsa KEY"}

MachineStatuses == {"Started", "Running", "Stopped", "Suspended"}
ActionStatuses == {"Started", "Restarted", "Deleted", "Failed"}
ErrorCodes == {"", "E_BUSY"}

----------------------------------------------------------------------------
(* Go error values: nil, or an error carrying a message *)

Nil == [nil |-> TRUE, msg |-> ""]

Errorf(m) == [nil |-> FALSE, msg |-> m]

TransportError == Errorf("request failed")

\* sequences without repetition over S, of every length: a fetched catalog
Listings(S) ==
    { q \in UNION { [1..n -> S] : n \in 0..Cardinality(S) } :
        \A i, j \in 1..Len(q) : i # j => q[i] # q[j] }

(* Replies of the provider client *)
MachineReplies ==
    {[err |-> TransportError, Status |-> ""]}
        \cup {[err |-> Nil, Status |-> s] : s \in MachineStatuses}

StatusReplies ==
    {[err |-> TransportError, status |-> ""]}
        \cup {[err |-> Nil, status |-> s] : s \in ActionStatuses}

ShutdownReplies ==
    {[err |-> TransportError, Error |-> FALSE, ErrorCode |-> ""]}
        \cup {[err |-> Nil, Error |-> f, ErrorCode |-> c] :
                 f \in BOOLEAN, c \in ErrorCodes}

CatalogReplies(S) ==
    {[fetched |-> TRUE, err |-> TransportError, entries |-> <<>>]}
        \cup {[fetched |-> TRUE, err |-> Nil, entries |-> q] : q \in Listings(S)}

NotFetched == [fetched |-> FALSE, err |-> Nil, entries |-> <<>>]

CreateReplies ==
    {[err |-> TransportError, Id |-> "", IpV4 |-> "", Password |-> ""]}
        \cup {[err |-> Nil, Id |-> i, IpV4 |-> a, Password |-> p] :
                 i \in InstanceIds, a \in Addresses, p \in Passwords}

\* ssh.GenerateSSHKey and ioutil.ReadFile of the public key
KeyOutcomes ==
    {[generate |-> Errorf("generate failed"), read |-> Nil, key |-> ""],
     [generate |-> Nil, read |-> Errorf("read failed"), key |-> ""]}
        \cup {[generate |-> Nil, read |-> Nil, key |-> k] : k \in PublicKeys}

\* ssh.NewClient and Client.Output
SshOutcomes ==
    {[client |-> Errorf("ssh client failed"), output |-> Nil],
     [client |-> Nil, output |-> Errorf("ssh command failed")],
     [client |-> Nil, output |-> Nil]}

NoReply == [err |-> Nil]

NoCatalogs == [image |-> NotFetched, datacenter |-> NotFetched, offer |-> NotFetched]

\* one request of the log
Req(name, arg) == [req |-> name, arg |-> arg]

Count(q, name) == Cardinality({i \in 1..Len(q) : q[i].req = name})

----------------------------------------------------------------------------
(* The driver's pure parts *)

NewDriver ==
    [ClientId |-> "", ClientSecret |-> "",
     ImageID |-> defaultImageID, OfferID |-> defaultOfferID,
     DatacenterID |-> defaultDatacenterID,
     InstanceID |-> "", IPAddress |-> ""]

\* mutant: the sentinel "0" is taken for an address
GetIPResult_ZeroAccepted(drv) ==
    IF drv.IPAddress = ""
    THEN [ip |-> "", err |-> Errorf("IP address is not set")]
    ELSE [ip |-> drv.IPAddress, err |-> Nil]

GetIPResult(drv) ==
    IF drv.IPAddress = "" \/ drv.IPAddress = "0"
    THEN [ip |-> "", err |-> Errorf("IP address is not set")]
    ELSE [ip |-> drv.IPAddress, err |-> Nil]

\* mutant: "Started" is taken for Running
GetStateResult_StartedIsRunning(machine) ==
    IF ~machine.err.nil
    THEN [state |-> "Error", err |-> machine.err]
    ELSE CASE machine.Status = "Started" -> [state |-> "Running", err |-> Nil]
           [] machine.Status = "Running" -> [state |-> "Running", err |-> Nil]
           [] machine.Status = "Stopped" -> [state |-> "Stopped", err |-> Nil]
           [] OTHER -> [state |-> "Error", err |-> Nil]

GetStateResult(machine) ==
    IF ~machine.err.nil
    THEN [state |-> "Error", err |-> machine.err]
    ELSE CASE machine.Status = "Started" -> [state |-> "Starting", err |-> Nil]
           [] machine.Status = "Running" -> [state |-> "Running", err |-> Nil]
           [] machine.Status = "Stopped" -> [state |-> "Stopped", err |-> Nil]
           [] OTHER -> [state |-> "Error", err |-> Nil]

ErrHostIsNotRunning == Errorf("Host is not running")

\* mutant: the state is queried but not compared with Running
GetURLResult_NoStateCheck(drv, machine) ==
    LET s == GetStateResult(machine)
        ip == GetIPResult(drv)
    IN  IF ~s.err.nil THEN [url |-> "", err |-> s.err]
        ELSE IF ~ip.err.nil THEN [url |-> "", err |-> ip.err]
        ELSE [url |-> "tcp://" \o ip.ip \o ":2376", err |-> Nil]

GetURLResult(drv, machine) ==
    LET s == GetStateResult(machine)
        ip == GetIPResult(drv)
    IN  IF ~s.err.nil THEN [url |-> "", err |-> s.err]
        ELSE IF s.state # "Running" THEN [url |-> "", err |-> ErrHostIsNotRunning]
        ELSE IF ~ip.err.nil THEN [url |-> "", err |-> ip.err]
        ELSE [url |-> "tcp://" \o ip.ip \o ":2376", err |-> Nil]

StartResult(r) ==
    IF ~r.err.nil THEN r.err
    ELSE IF r.status # "Started"
         THEN Errorf("Invalid status " \o r.status \o " after start")
         ELSE Nil

\* mutant: the provider's error flag is not looked at
StopResult_IgnoresFlag(actionStatus) ==
    IF ~actionStatus.err.nil THEN actionStatus.err ELSE Nil

StopResult(actionStatus) ==
    IF ~actionStatus.err.nil THEN actionStatus.err
    ELSE IF actionStatus.Error THEN Errorf(actionStatus.ErrorCode)
    ELSE Nil

RemoveResult(r) ==
    IF ~r.err.nil THEN r.err
    ELSE IF r.status # "Deleted"
         THEN Errorf("Invalid status " \o r.status \o " after remove")
         ELSE Nil

RestartResult(r) ==
    IF ~r.err.nil THEN r.err
    ELSE IF r.status # "Restarted"
         THEN Errorf("Invalid status " \o r.status \o " after restart")
         ELSE Nil

\* mutant: Kill reports the request's error but not the provider's flag
KillResult_RequestErrorOnly(actionStatus) ==
    IF ~actionStatus.err.nil THEN actionStatus.err ELSE Nil

KillResult(actionStatus) ==
    IF ~actionStatus.err.nil THEN actionStatus.err
    ELSE IF actionStatus.Error THEN Errorf(actionStatus.ErrorCode)
    ELSE Nil

\* the for loop over a fetched catalog: TRUE at the first entry equal to id
RECURSIVE Scan(_, _)
Scan(entries, id) ==
    IF entries = <<>> THEN FALSE
    ELSE IF Head(entries) = id THEN TRUE
    ELSE Scan(Tail(entries), id)

\* mutant: the image catalog is fetched but not searched
validateImageID_Unchecked(drv, images) ==
    IF ~images.err.nil THEN images.err ELSE Nil

validateImageID(drv, images) ==
    IF ~images.err.nil THEN images.err
    ELSE IF Scan(images.entries, drv.ImageID) THEN Nil
    ELSE Errorf("Image ID " \o drv.ImageID \o " is invalid")

\* mutant: the catalog is fetched but not searched
validateDatacenterID_Unchecked(drv, datacenters) ==
    IF ~datacenters.err.nil THEN datacenters.err ELSE Nil

validateDatacenterID(drv, datacenters) ==
    IF ~datacenters.err.nil THEN datacenters.err
    ELSE IF Scan(datacenters.entries, drv.DatacenterID) THEN Nil
    ELSE Errorf("Datacenter ID " \o drv.DatacenterID \o " is invalid")

\* mutant: the offers are compared with the image identifier
validateOfferID_ComparesImage(drv, offers) ==
    IF ~offers.err.nil THEN offers.err
    ELSE IF Scan(offers.entries, drv.ImageID) THEN Nil
    ELSE Errorf("Offer ID " \o drv.OfferID \o " is invalid")

validateOfferID(drv, offers) ==
    IF ~offers.err.nil THEN offers.err
    ELSE IF Scan(offers.entries, drv.OfferID) THEN Nil
    ELSE Errorf("Offer ID " \o drv.OfferID \o " is invalid")

\* mutant: the error of reading the public key back is dropped
createSSHKey_IgnoresReadError(k) ==
    IF ~k.generate.nil THEN [key |-> "", err |-> k.generate]
    ELSE [key |-> k.key, err |-> Nil]

createSSHKey(k) ==
    IF ~k.generate.nil THEN [key |-> "", err |-> k.generate]
    ELSE IF ~k.read.nil THEN [key |-> "", err |-> k.read]
    ELSE [key |-> k.key, err |-> Nil]

\* mutant: any answered state query ends the first wait
MachineInState_AnyAnswer(machine, desiredState) ==
    GetStateResult(machine).err.nil

\* drivers.MachineInState(d, desired): the poll predicate of the first wait
MachineInState(machine, desiredState) ==
    GetStateResult(machine).state = desiredState

\* mutant: the client is built for the recorded address, set or not
runSshCommand_NoAddressCheck(drv, password, cmd, o) ==
    IF ~o.client.nil
    THEN [err |-> o.client, reqs |-> <<Req("ssh.NewClient", drv.IPAddress)>>]
    ELSE [err |-> o.output,
          reqs |-> <<Req("ssh.NewClient", drv.IPAddress), Req("ssh.Output", cmd)>>]

\* getSshClient then Client.Output: the error, and the requests issued
runSshCommand(drv, password, cmd, o) ==
    LET address == GetIPResult(drv)
    IN  IF ~address.err.nil THEN [err |-> address.err, reqs |-> <<>>]
        ELSE IF ~o.client.nil
             THEN [err |-> o.client, reqs |-> <<Req("ssh.NewClient", address.ip)>>]
             ELSE [err |-> o.output,
                   reqs |-> <<Req("ssh.NewClient", address.ip), Req("ssh.Output", cmd)>>]

\* mutant: the no-op's error is not looked at
sshAvailableFunc_Always(drv, password, o) == TRUE

\* the poll predicate of the second wait
sshAvailableFunc(drv, password, o) ==
    runSshCommand(drv, password, "exit 0", o).err.nil

AppendCommand(sshKey) ==
    "mkdir ~/.ssh && echo '" \o sshKey \o "' >> ~/.ssh/authorized_keys"

\* mcnutils.WaitFor's error once its polls are used up
WaitForTimeout == Errorf("Maximum number of retries exceeded")

\* mutant: the first wait reports the second wait's message
RunningPhaseError_Ssh(err) ==
    Errorf("Error waiting for ssh to be available: " \o err.msg)

RunningPhaseError(err) ==
    Errorf("Error waiting for machine to be running: " \o err.msg)

SshPhaseError(err) ==
    Errorf("Error waiting for ssh to be available: " \o err.msg)

\* mutant: the flags are stored on a fresh record
StoreFlags_OnNewDriver(drv, flags) ==
    [NewDriver EXCEPT !.ClientId = flags.id, !.ClientSecret = flags.secret,
                      !.ImageID = flags.image, !.DatacenterID = flags.datacenter,
                      !.OfferID = flags.offer]

\* SetConfigFromFlags: the fields it stores, and the error it returns
StoreFlags(drv, flags) ==
    [drv EXCEPT !.ClientId = flags.id, !.ClientSecret = flags.secret,
                !.ImageID = flags.image, !.DatacenterID = flags.datacenter,
                !.OfferID = flags.offer]

\* mutant: only the client identifier is required
SetConfigFromFlagsResult_IdOnly(drv) ==
    IF drv.ClientId = ""
    THEN Errorf("VPSie driver requires the --vpsie-client-id option")
    ELSE Nil

SetConfigFromFlagsResult(drv) ==
    IF drv.ClientId = ""
    THEN Errorf("VPSie driver requires the --vpsie-client-id option")
    ELSE IF drv.ClientSecret = ""
    THEN Errorf("VPSie driver requires the --vpsie-client-secret option")
    ELSE Nil

\* mutant: the address of the create response is not stored
RecordInstance_NoAddress(drv, instance) ==
    [drv EXCEPT !.InstanceID = instance.Id]

\* lines 148-149: the create response stored on the record
RecordInstance(drv, instance) ==
    [drv EXCEPT !.InstanceID = instance.Id, !.IPAddress = instance.IpV4]

\* mutant: the loop runs one poll too many
WaitForGivesUp_OneMore(i) == i + 1 >= MaxAttempts + 1

\* the loop of mcnutils.WaitFor: poll number i (from 0) was the last one
WaitForGivesUp(i) == i + 1 >= MaxAttempts

\* Create's return value once addSshKeyToServer has returned err
CreateResult(err) == Nil

----------------------------------------------------------------------------
(* State *)

\* call: the operation, whether it has returned, the value and error it
\* returned; for Create also whether a poll has seen the provider report
\* Running (running), whether an SSH no-op has succeeded (ssh), how many
\* state queries the provider answered with something else than Running
\* (notRunning), how many times the second wait called its predicate
\* (sshPolls) and how many of those calls did not run a successful no-op
\* (noopFailed), and whether addSshKeyToServer has returned and with which
\* error.
Invoked(op) ==
    [op |-> op, done |-> FALSE, err |-> Nil, ret |-> "",
     running |-> FALSE, ssh |-> FALSE,
     notRunning |-> 0, sshPolls |-> 0, noopFailed |-> 0,
     addReturned |-> FALSE, addErr |-> Nil]

Returned(op, ret, err) ==
    [op |-> op, done |-> TRUE, err |-> err, ret |-> ret,
     running |-> FALSE, ssh |-> FALSE,
     notRunning |-> 0, sshPolls |-> 0, noopFailed |-> 0,
     addReturned |-> FALSE, addErr |-> Nil]

NoInstance == [err |-> Nil, Id |-> "", IpV4 |-> "", Password |-> ""]

Locals(password, sshKey, instance) ==
    [password |-> password, sshKey |-> sshKey, instance |-> instance]

Init ==
    /\ d = NewDriver
    /\ pc = "idle"
    /\ attempts = 0
    /\ loc = Locals("", "", NoInstance)
    /\ call = Returned("NewDriver", "", Nil)
    /\ reply = NoReply
    /\ cat = NoCatalogs
    /\ log = <<>>

\* a one-shot operation: it runs to its return in one step
OneShot(op, ret, err, r, requests, catalogs) ==
    /\ pc = "idle"
    /\ pc' = "idle"
    /\ attempts' = 0
    /\ loc' = Locals("", "", NoInstance)
    /\ call' = Returned(op, ret, err)
    /\ reply' = r
    /\ log' = requests
    /\ cat' = catalogs

----------------------------------------------------------------------------
(* One-shot operations *)

SetConfigFromFlags ==
    \E flags \in [id : ClientIds, secret : ClientSecrets, image : ImageIds,
                  datacenter : DatacenterIds, offer : OfferIds] :
        /\ d' = StoreFlags(d, flags)
        /\ OneShot("SetConfigFromFlags", "", SetConfigFromFlagsResult(d'),
                   NoReply, <<>>, NoCatalogs)

PreCreateCheck ==
    /\ \E images \in CatalogReplies(ImageIds) :
        LET e1 == validateImageID(d, images)
        IN  IF ~e1.nil
            THEN OneShot("PreCreateCheck", "", e1, NoReply,
                         <<Req("GetImages", "")>>,
                         [NoCatalogs EXCEPT !.image = images])
            ELSE \E datacenters \in CatalogReplies(DatacenterIds) :
                LET e2 == validateDatacenterID(d, datacenters)
                IN  IF ~e2.nil
                    THEN OneShot("PreCreateCheck", "", e2, NoReply,
                                 <<Req("GetImages", ""), Req("GetDatacenters", "")>>,
                                 [NoCatalogs EXCEPT !.image = images,
                                                    !.datacenter = datacenters])
                    ELSE \E offers \in CatalogReplies(OfferIds) :
                        OneShot("PreCreateCheck", "", validateOfferID(d, offers),
                                NoReply,
                                <<Req("GetImages", ""), Req("GetDatacenters", ""),
                                  Req("GetOffers", "")>>,
                                [image |-> images, datacenter |-> datacenters,
                                 offer |-> offers])
    /\ UNCHANGED d

GetURL ==
    \E machine \in MachineReplies :
        LET r == GetURLResult(d, machine)
        IN  /\ OneShot("GetURL", r.url, r.err, machine,
                       <<Req("GetVPSie", d.InstanceID)>>, NoCatalogs)
            /\ UNCHANGED d

GetIP ==
    LET r == GetIPResult(d)
    IN  /\ OneShot("GetIP", r.ip, r.err, NoReply, <<>>, NoCatalogs)
        /\ UNCHANGED d

GetState ==
    \E machine \in MachineReplies :
        LET r == GetStateResult(machine)
        IN  /\ OneShot("GetState", r.state, r.err, machine,
                       <<Req("GetVPSie", d.InstanceID)>>, NoCatalogs)
            /\ UNCHANGED d

\* mutant: a failed start request is issued a second time
Start_RetriesOnce ==
    \E r1, r2 \in StatusReplies :
        /\ IF r1.err.nil
           THEN OneShot("Start", "", StartResult(r1), r1,
                        <<Req("StartVPSie", d.InstanceID)>>, NoCatalogs)
           ELSE OneShot("Start", "", StartResult(r2), r2,
                        <<Req("StartVPSie", d.InstanceID),
                          Req("StartVPSie", d.InstanceID)>>, NoCatalogs)
        /\ UNCHANGED d

Start ==
    \E r \in StatusReplies :
        /\ OneShot("Start", "", StartResult(r), r,
                   <<Req("StartVPSie", d.InstanceID)>>, NoCatalogs)
        /\ UNCHANGED d

Stop ==
    \E actionStatus \in ShutdownReplies :
        /\ OneShot("Stop", "", StopResult(actionStatus), actionStatus,
                   <<Req("ShutdownVPSie", d.InstanceID)>>, NoCatalogs)
        /\ UNCHANGED d

Remove ==
    \E r \in StatusReplies :
        /\ OneShot("Remove", "", RemoveResult(r), r,
                   <<Req("DeleteVPSie", d.InstanceID)>>, NoCatalogs)
        /\ UNCHANGED d

Restart ==
    \E r \in StatusReplies :
        /\ OneShot("Restart", "", RestartResult(r), r,
                   <<Req("RestartVPSie", d.InstanceID)>>, NoCatalogs)
        /\ UNCHANGED d

Kill ==
    \E actionStatus \in ShutdownReplies :
        /\ OneShot("Kill", "", KillResult(actionStatus), actionStatus,
                   <<Req("ShutdownVPSie", d.InstanceID)>>, NoCatalogs)
        /\ UNCHANGED d

----------------------------------------------------------------------------
(* Create, step by step *)

\* Create returns: addSshKeyToServer has returned addErr (lines 156-158)
CreateReturns(c, addErr) ==
    [c EXCEPT !.done = TRUE, !.err = CreateResult(addErr),
              !.addReturned = TRUE, !.addErr = addErr]

\* what the environment did, recorded as seen: the provider reported Running
ProviderRunning(machine) == machine.err.nil /\ machine.Status = "Running"

\* the "exit 0" command was run on the guest and succeeded
NoopSucceeded(r) ==
    /\ r.err.nil
    /\ \E i \in 1..Len(r.reqs) : r.reqs[i] = Req("ssh.Output", "exit 0")

\* call after a state query of the first wait was answered with machine
SawMachine(c, machine) ==
    [c EXCEPT !.running = @ \/ ProviderRunning(machine),
              !.notRunning = IF ProviderRunning(machine) THEN @ ELSE @ + 1]

\* call after the predicate of the second wait ran runSshCommand, giving r
SawNoop(c, r) ==
    [c EXCEPT !.ssh = @ \/ NoopSucceeded(r),
              !.sshPolls = @ + 1,
              !.noopFailed = IF NoopSucceeded(r) THEN @ ELSE @ + 1]

\* lines 131-137: the key pair; a failure returns at once
Create ==
    /\ pc = "idle"
    /\ \E k \in KeyOutcomes :
        LET r == createSSHKey(k)
        IN  /\ reply' = k
            /\ log' = <<Req("ssh.GenerateSSHKey", "")>>
            /\ loc' = Locals("", r.key, NoInstance)
            /\ IF ~r.err.nil
               THEN /\ pc' = "idle"
                    /\ call' = Returned("Create", "", r.err)
               ELSE /\ pc' = "createVPSie"
                    /\ call' = Invoked("Create")
    /\ attempts' = 0
    /\ cat' = NoCatalogs
    /\ UNCHANGED d

\* lines 139-154: the provider create request; on success the record is set
CreateVPSie ==
    /\ pc = "createVPSie"
    /\ \E instance \in CreateReplies :
        /\ reply' = instance
        /\ log' = Append(log, Req("CreateVPSie",
                                  <<d.OfferID, d.DatacenterID, d.ImageID>>))
        /\ IF ~instance.err.nil
           THEN /\ pc' = "idle"
                /\ call' = Returned("Create", "", instance.err)
                /\ UNCHANGED <<d, loc>>
           ELSE /\ pc' = "waitRunning"
                /\ d' = RecordInstance(d, instance)
                /\ loc' = Locals(instance.Password, loc.sshKey, instance)
                /\ UNCHANGED call
    /\ UNCHANGED <<attempts, cat>>

\* line 323: one poll of WaitFor(MachineInState(d, Running))
WaitRunning ==
    /\ pc = "waitRunning"
    /\ \E machine \in MachineReplies :
        /\ reply' = machine
        /\ log' = Append(log, Req("GetVPSie", d.InstanceID))
        /\ IF MachineInState(machine, "Running")
           THEN /\ pc' = "waitSSH"
                /\ attempts' = 0
                /\ call' = SawMachine(call, machine)
           ELSE IF ~WaitForGivesUp(attempts)
           THEN /\ attempts' = attempts + 1
                /\ call' = SawMachine(call, machine)
                /\ UNCHANGED pc
           ELSE /\ pc' = "idle"
                /\ attempts' = 0
                /\ call' = CreateReturns(SawMachine(call, machine),
                                         RunningPhaseError(WaitForTimeout))
    /\ UNCHANGED <<d, loc, cat>>

\* line 328: one poll of WaitFor(sshAvailableFunc(password))
WaitSSH ==
    /\ pc = "waitSSH"
    /\ \E o \in SshOutcomes :
        LET r == runSshCommand(d, loc.password, "exit 0", o)
        IN  /\ reply' = [err |-> r.err]
            /\ log' = log \o r.reqs
            /\ IF sshAvailableFunc(d, loc.password, o)
               THEN /\ pc' = "append"
                    /\ attempts' = 0
                    /\ call' = SawNoop(call, r)
               ELSE IF ~WaitForGivesUp(attempts)
               THEN /\ attempts' = attempts + 1
                    /\ call' = SawNoop(call, r)
                    /\ UNCHANGED pc
               ELSE /\ pc' = "idle"
                    /\ attempts' = 0
                    /\ call' = CreateReturns(SawNoop(call, r),
                                             SshPhaseError(WaitForTimeout))
    /\ UNCHANGED <<d, loc, cat>>

\* lines 332-336: the authorized_keys append, then Create's return
AppendKey ==
    /\ pc = "append"
    /\ \E o \in SshOutcomes :
        LET r == runSshCommand(d, loc.password, AppendCommand(loc.sshKey), o)
        IN  /\ reply' = [err |-> r.err]
            /\ log' = log \o r.reqs
            /\ pc' = "idle"
            /\ attempts' = 0
            /\ call' = CreateReturns(call, r.err)
    /\ UNCHANGED <<d, loc, cat>>

----------------------------------------------------------------------------
(* Specification *)

Next ==
    \/ SetConfigFromFlags
    \/ PreCreateCheck
    \/ Create
    \/ CreateVPSie
    \/ WaitRunning
    \/ WaitSSH
    \/ AppendKey
    \/ GetURL
    \/ GetIP
    \/ GetState
    \/ Start
    \/ Stop
    \/ Remove
    \/ Restart
    \/ Kill

Spec == Init /\ [][Next]_vars

\* the thread running Create keeps running: each of its steps is taken
CreateStep == CreateVPSie \/ WaitRunning \/ WaitSSH \/ AppendKey

FairSpec == Spec /\ WF_vars(CreateStep)

----------------------------------------------------------------------------
(* Vocabulary of the properties *)

HasPrefix(str, p) == Len(str) >= Len(p) /\ SubSeq(str, 1, Len(p)) = p

\* t occurs in str
Contains(str, t) ==
    \E i \in 1..(Len(str) - Len(t) + 1) : SubSeq(str, i, i + Len(t) - 1) = t

Range(q) == {q[i] : i \in 1..Len(q)}

Issued(name) == Count(log, name) > 0

\* the authorized_keys append command of this Create was run
AppendIssued ==
    \E i \in 1..Len(log) : log[i] = Req("ssh.Output", AppendCommand(loc.sshKey))

CreateReturned == call.op = "Create" /\ call.done

Bootstrapping == pc \in {"waitRunning", "waitSSH", "append"}

----------------------------------------------------------------------------
(* C1 *)

\* C1: whenever Create returns success, the authorized-keys append has been
\* issued and has succeeded (a wait that times out or an append that fails
\* makes Create return an error).
C1_CreateSuccessMeansKeyInstalled ==
    (CreateReturned /\ call.err.nil) =>
        (call.addReturned /\ call.addErr.nil /\ AppendIssued)

----------------------------------------------------------------------------
(* C2 *)

\* C2 as stated: within a Create, every provider create request is preceded
\* by the three catalog requests of that same invocation.
C2_CreateValidatesFirst ==
    call.op = "Create" =>
        \A i \in 1..Len(log) :
            log[i].req = "CreateVPSie" =>
                \A c \in {"GetImages", "GetDatacenters", "GetOffers"} :
                    \E j \in 1..(i - 1) : log[j].req = c

\* C2 amended: the validation is PreCreateCheck's.  PreCreateCheck issues no
\* provider create request, and it returns success only if all three
\* catalogs were fetched and hold the configured identifier; Create fetches
\* no catalog, and issues its create request whatever the catalogs hold.
C2_ValidationIsPreCreateCheck ==
    /\ call.op = "PreCreateCheck" =>
        /\ ~Issued("CreateVPSie")
        /\ call.err.nil =>
            /\ cat.image.fetched /\ cat.image.err.nil
            /\ d.ImageID \in Range(cat.image.entries)
            /\ cat.datacenter.fetched /\ cat.datacenter.err.nil
            /\ d.DatacenterID \in Range(cat.datacenter.entries)
            /\ cat.offer.fetched /\ cat.offer.err.nil
            /\ d.OfferID \in Range(cat.offer.entries)
    /\ call.op = "Create" =>
        /\ ~Issued("GetImages") /\ ~Issued("GetDatacenters") /\ ~Issued("GetOffers")
        /\ Count(log, "CreateVPSie") <= 1

\* a PreCreateCheck that failed at the datacenter, having passed the image
C2_Witness ==
    /\ call.op = "PreCreateCheck" /\ ~call.err.nil
    /\ cat.datacenter.fetched /\ cat.datacenter.err.nil
    /\ d.DatacenterID \notin Range(cat.datacenter.entries)
    /\ ~cat.offer.fetched

----------------------------------------------------------------------------
(* C3 *)

\* C3: the identifier and the address change only in the step that receives
\* a successful create response, which stores that response's values; and in
\* every state of the bootstrap (from before its first poll) both fields
\* hold the values of the create response.
C3_RecordSetByCreateResponse ==
    /\ [](Bootstrapping =>
            /\ loc.instance.err.nil
            /\ Issued("CreateVPSie")
            /\ d.InstanceID = loc.instance.Id
            /\ d.IPAddress = loc.instance.IpV4)
    /\ [][(d'.InstanceID # d.InstanceID \/ d'.IPAddress # d.IPAddress) =>
            /\ pc = "createVPSie" /\ pc' = "waitRunning"
            /\ reply'.err.nil
            /\ d'.InstanceID = reply'.Id
            /\ d'.IPAddress = reply'.IpV4]_vars
    /\ [][(call'.op = "Create" /\ call'.done /\ ~call'.addReturned) => d' = d]_vars

\* a second Create is polling: the record holds the new response, vm-2
C3_Witness ==
    /\ pc = "waitRunning" /\ attempts = 1
    /\ loc.instance.Id = "vm-2" /\ d.InstanceID = "vm-2"
    /\ d.IPAddress = "10.0.0.1"

----------------------------------------------------------------------------
(* C4 *)

PollsOf(name) == Count(log, name)

\* C4: every Create that has been invoked returns, and no wait polls more
\* than MaxAttempts times: at most MaxAttempts state queries and at most
\* MaxAttempts SSH no-ops in one Create.
C4_CreateReturns ==
    /\ (pc # "idle") ~> (pc = "idle" /\ CreateReturned)
    /\ [](call.op = "Create" =>
            /\ PollsOf("GetVPSie") <= MaxAttempts
            /\ Cardinality({i \in 1..Len(log) :
                              log[i] = Req("ssh.Output", "exit 0")}) <= MaxAttempts
            /\ attempts < MaxAttempts)

\* a Create returned after the provider never reported Running in
\* MaxAttempts polls
C4_Witness ==
    /\ CreateReturned /\ call.addReturned /\ ~call.running
    /\ PollsOf("GetVPSie") = MaxAttempts

----------------------------------------------------------------------------
(* C5 *)

RunningPhase == "Error waiting for machine to be running"

SshPhase == "Error waiting for ssh to be available"

SshAttempted == Issued("ssh.NewClient") \/ Issued("ssh.Output")

\* C5: when addSshKeyToServer returns without the provider ever having
\* reported Running, its error names the VM-running phase and no SSH client
\* was built and no command run; when Running was seen but no SSH no-op
\* succeeded, its error names the SSH phase and no append was issued.
C5_TimeoutNamesPhase ==
    (call.op = "Create" /\ call.addReturned) =>
        /\ ~call.running =>
            /\ ~call.addErr.nil
            /\ HasPrefix(call.addErr.msg, RunningPhase)
            /\ ~Contains(call.addErr.msg, SshPhase)
            /\ ~SshAttempted
        /\ (call.running /\ ~call.ssh) =>
            /\ ~call.addErr.nil
            /\ HasPrefix(call.addErr.msg, SshPhase)
            /\ ~Contains(call.addErr.msg, RunningPhase)
            /\ ~AppendIssued

\* Running was reported, then MaxAttempts SSH no-ops failed on the guest
C5_Witness ==
    /\ call.op = "Create" /\ call.addReturned
    /\ call.running /\ ~call.ssh
    /\ Count(log, "ssh.Output") = MaxAttempts

----------------------------------------------------------------------------
(* C6 *)

\* C6: what GetState returns is decided by the provider's reply to this
\* call alone: Started gives Starting, Running gives Running, Stopped gives
\* Stopped, any other status gives Error, each with a nil error; a failed
\* query gives Error with the query's error.
C6_GetStateTable ==
    call.op = "GetState" =>
        /\ Count(log, "GetVPSie") = 1
        /\ IF ~reply.err.nil
           THEN call.ret = "Error" /\ call.err = reply.err
           ELSE /\ call.err.nil
                /\ reply.Status = "Started" => call.ret = "Starting"
                /\ reply.Status = "Running" => call.ret = "Running"
                /\ reply.Status = "Stopped" => call.ret = "Stopped"
                /\ reply.Status \notin {"Started", "Running", "Stopped"} =>
                       call.ret = "Error"

\* an unknown status, after a Create has stored an instance
C6_Witness ==
    /\ call.op = "GetState" /\ d.InstanceID # ""
    /\ reply.err.nil /\ reply.Status = "Suspended"
    /\ call.ret = "Error" /\ call.err.nil

----------------------------------------------------------------------------
(* C7 *)

StateIsRunning == reply.err.nil /\ reply.Status = "Running"

Endpoint(ip) == "tcp://" \o ip \o ":2376"

\* C7 as stated, taken for a driver whose Create has stored an instance:
\* GetURL fails when the state is not Running and in every other case
\* returns the endpoint of the recorded address.
C7_EndpointWheneverRunning ==
    (call.op = "GetURL" /\ d.InstanceID # "") =>
        IF StateIsRunning
        THEN call.err.nil /\ call.ret = Endpoint(d.IPAddress)
        ELSE ~call.err.nil

\* C7 amended: GetURL fails when the state is not Running; when it is
\* Running, GetURL returns the endpoint if the recorded address is neither
\* "" nor "0", and fails with GetIP's error otherwise.
C7_EndpointWhenRunningAndAddressSet ==
    call.op = "GetURL" =>
        IF ~StateIsRunning
        THEN ~call.err.nil /\ call.ret = ""
        ELSE IF d.IPAddress \in {"", "0"}
        THEN ~call.err.nil /\ call.ret = "" /\ call.err.msg = "IP address is not set"
        ELSE call.err.nil /\ call.ret = Endpoint(d.IPAddress)

\* Running with an address: the endpoint
C7_Witness ==
    /\ call.op = "GetURL" /\ StateIsRunning
    /\ call.ret = "tcp://10.0.0.1:2376"

----------------------------------------------------------------------------
(* C8 *)

\* the status literal each action expects, and the request it issues
Expected(op) ==
    CASE op = "Start" -> "Started"
      [] op = "Restart" -> "Restarted"
      [] op = "Remove" -> "Deleted"

RequestOf(op) ==
    CASE op = "Start" -> "StartVPSie"
      [] op = "Restart" -> "RestartVPSie"
      [] op = "Remove" -> "DeleteVPSie"
      [] op \in {"Stop", "Kill"} -> "ShutdownVPSie"

\* C8: Start, Restart and Remove succeed exactly when the request returns
\* without error and the reported status is the expected literal, and a
\* different status gives an error naming that status; Stop and Kill succeed
\* exactly when the request returns without error and the provider's error
\* flag is clear, and a set flag gives an error that is the error code; a
\* failed request gives the request's error.
C8_LifecycleOutcome ==
    /\ call.op \in {"Start", "Restart", "Remove"} =>
        /\ log = <<Req(RequestOf(call.op), d.InstanceID)>>
        /\ call.err.nil <=> (reply.err.nil /\ reply.status = Expected(call.op))
        /\ ~reply.err.nil => call.err = reply.err
        /\ (reply.err.nil /\ reply.status # Expected(call.op)) =>
               /\ Contains(call.err.msg, reply.status)
               /\ HasPrefix(call.err.msg, "Invalid status ")
    /\ call.op \in {"Stop", "Kill"} =>
        /\ log = <<Req(RequestOf(call.op), d.InstanceID)>>
        /\ call.err.nil <=> (reply.err.nil /\ ~reply.Error)
        /\ ~reply.err.nil => call.err = reply.err
        /\ (reply.err.nil /\ reply.Error) => call.err.msg = reply.ErrorCode

\* a Restart the provider answered with "Started": an error naming it
C8_Witness ==
    /\ call.op = "Restart" /\ reply.err.nil /\ reply.status = "Started"
    /\ ~call.err.nil /\ Contains(call.err.msg, "Started")

----------------------------------------------------------------------------
(* C9 *)

\* C9: GetIP fails when the recorded address is "" or "0" and returns the
\* recorded address with no error otherwise; the step that runs GetIP
\* leaves the record as it was.
C9_GetIP ==
    /\ [](call.op = "GetIP" =>
            IF d.IPAddress \in {"", "0"}
            THEN ~call.err.nil
            ELSE call.err.nil /\ call.ret = d.IPAddress)
    /\ [][call'.op = "GetIP" => d' = d]_vars

\* GetIP on the sentinel address "0" stored by a Create
C9_Witness ==
    /\ call.op = "GetIP" /\ d.InstanceID # "" /\ d.IPAddress = "0"
    /\ ~call.err.nil

----------------------------------------------------------------------------
(* C10 *)

KindIds == [image |-> ImageIds, datacenter |-> DatacenterIds, offer |-> OfferIds]

Configured == [image |-> d.ImageID, datacenter |-> d.DatacenterID,
               offer |-> d.OfferID]

\* the validation of a kind succeeded: PreCreateCheck went on to the next
\* kind, or, after the last one, returned success
Passed ==
    [image |-> cat.datacenter.fetched,
     datacenter |-> cat.offer.fetched,
     offer |-> cat.offer.fetched /\ call.err.nil]

\* C10: in a PreCreateCheck, the validation of each kind that was run
\* succeeded if and only if its catalog fetch succeeded and the configured
\* identifier is the id of an entry of the fetched catalog; when the fetch
\* succeeded and the identifier is absent, the error names the configured
\* identifier and no other identifier of that kind.
C10_ValidateIffListed ==
    call.op = "PreCreateCheck" =>
        \A k \in {"image", "datacenter", "offer"} :
            cat[k].fetched =>
                /\ Passed[k] <=>
                       (cat[k].err.nil /\ Configured[k] \in Range(cat[k].entries))
                /\ (cat[k].err.nil /\ Configured[k] \notin Range(cat[k].entries)) =>
                       /\ ~call.err.nil
                       /\ Contains(call.err.msg, Configured[k])
                       /\ \A other \in KindIds[k] \ {Configured[k]} :
                              ~Contains(call.err.msg, other)
                /\ ~cat[k].err.nil => call.err = cat[k].err

\* the configured offer is absent from a fetched catalog that lists another
C10_Witness ==
    /\ call.op = "PreCreateCheck" /\ cat.offer.fetched /\ cat.offer.err.nil
    /\ cat.offer.entries = <<"offer-x">> /\ d.OfferID = defaultOfferID
    /\ call.err.msg = "Offer ID 9a0e49c6-9f22-11e3-8af5-005056aa8af7 is invalid"

----------------------------------------------------------------------------
(* C11 *)

MissingCredential(err) ==
    /\ ~err.nil
    /\ \/ err.msg = "VPSie driver requires the --vpsie-client-id option"
       \/ err.msg = "VPSie driver requires the --vpsie-client-secret option"

\* C11: SetConfigFromFlags returns an error exactly when the client
\* identifier or the client secret it stored is empty, that error is a
\* missing-credential error, and the call issues no request.
C11_MissingCredential ==
    call.op = "SetConfigFromFlags" =>
        /\ ~call.err.nil <=> (d.ClientId = "" \/ d.ClientSecret = "")
        /\ ~call.err.nil => MissingCredential(call.err)
        /\ log = <<>>

\* the identifier is given and the secret is not
C11_Witness ==
    /\ call.op = "SetConfigFromFlags"
    /\ d.ClientId = "client" /\ d.ClientSecret = ""
    /\ call.err.msg = "VPSie driver requires the --vpsie-client-secret option"

----------------------------------------------------------------------------
(* C12 *)

IsSsh(e) == e.req \in {"ssh.NewClient", "ssh.Output"}

IsNoop(e) == e = Req("ssh.Output", "exit 0")

IsAppend(e) == e.req = "ssh.Output" /\ e.arg # "exit 0"

AppendCount == Cardinality({i \in 1..Len(log) : IsAppend(log[i])})

\* C12: within one Create, no SSH request is issued before the provider has
\* reported Running, and every state query precedes every SSH request; the
\* append command is issued only after the provider has reported Running
\* and, after the state queries, an SSH no-op has run and succeeded, which
\* precedes the append in the order of issue; at most one append command is
\* issued.
C12_AppendAfterBothGates ==
    call.op = "Create" =>
        /\ (SshAttempted \/ pc \in {"waitSSH", "append"}) => call.running
        /\ \A i, j \in 1..Len(log) :
               (log[i].req = "GetVPSie" /\ IsSsh(log[j])) => i < j
        /\ (AppendCount > 0 \/ pc = "append") => (call.running /\ call.ssh)
        /\ \A j \in 1..Len(log) :
               IsAppend(log[j]) =>
                   /\ log[j].arg = AppendCommand(loc.sshKey)
                   /\ \E i \in 1..(j - 1) : IsNoop(log[i])
                   /\ \A i \in 1..(j - 1) : IsNoop(log[i]) => i + 1 < j
        /\ AppendCount <= 1

\* a Create that polled both gates more than once and then appended
C12_Witness ==
    /\ CreateReturned /\ AppendCount = 1
    /\ call.notRunning = 2 /\ call.noopFailed = 2

----------------------------------------------------------------------------
(* C13 *)

Max(a, b) == IF a >= b THEN a ELSE b

\* calls of the two poll predicates in this Create
TotalPolls == PollsOf("GetVPSie") + call.sshPolls

AddReturned == call.op = "Create" /\ call.addReturned

\* C13 as stated: when addSshKeyToServer has succeeded, after the provider
\* answered N state queries with something else than Running and M SSH
\* no-ops failed, it has polled max(N, M) + 1 times in total and issued
\* exactly one append command.
C13_MaxOfTheTwoWaits ==
    (AddReturned /\ call.addErr.nil) =>
        /\ TotalPolls = Max(call.notRunning, call.noopFailed) + 1
        /\ AppendCount = 1

\* the SSH client of the last runSshCommand could not be built
ClientFailed == ~reply.err.nil /\ reply.err.msg = "ssh client failed"

\* C13 amended: the waits run one after the other.  When the provider
\* reported Running after N < MaxAttempts other answers and then an SSH
\* no-op succeeded after M < MaxAttempts failures, addSshKeyToServer has
\* made N + 1 state polls followed by M + 1 SSH polls, N + M + 2 in total,
\* has attempted the append once (exactly one append command issued, none
\* if the SSH client for it could not be built) and has returned that
\* attempt's outcome; in no other case is an append command issued or
\* success returned.
C13_SumOfTheTwoWaits ==
    AddReturned =>
        /\ (call.running /\ call.ssh) =>
            /\ call.notRunning < MaxAttempts /\ call.noopFailed < MaxAttempts
            /\ PollsOf("GetVPSie") = call.notRunning + 1
            /\ call.sshPolls = call.noopFailed + 1
            /\ TotalPolls = call.notRunning + call.noopFailed + 2
            /\ AppendCount = IF ClientFailed THEN 0 ELSE 1
            /\ call.addErr = reply.err
        /\ (AppendCount > 0 \/ call.addErr.nil) =>
            (call.running /\ call.ssh /\ AppendCount = 1)

\* N = 2 and M = 1: five polls, one append, success
C13_Witness ==
    /\ AddReturned /\ call.addErr.nil
    /\ call.notRunning = 2 /\ call.noopFailed = 1
    /\ TotalPolls = 5 /\ AppendCount = 1

----------------------------------------------------------------------------
(* C14 *)

SameInstance == d'.InstanceID = d.InstanceID /\ d'.IPAddress = d.IPAddress

\* C14 as stated: once a provider create has succeeded and stored an
\* identifier, no step of any operation changes the identifier or the
\* address.
C14_WrittenOnce ==
    [][d.InstanceID # "" => SameInstance]_vars

\* C14 amended: the identifier and the address change only in the step of a
\* Create that receives a successful create response, which stores that
\* response's values, also when an earlier Create has stored others; no step
\* of SetConfigFromFlags, PreCreateCheck, GetState, GetIP, GetURL, Start,
\* Stop, Restart, Kill or Remove, no key generation and no bootstrap poll or
\* append changes either field.
C14_OnlyCreateResponseWrites ==
    /\ [][call'.op # "Create" => SameInstance]_vars
    /\ [][(pc # "createVPSie" \/ ~reply'.err.nil) => SameInstance]_vars
    /\ [][(pc = "createVPSie" /\ reply'.err.nil) =>
            (d'.InstanceID = reply'.Id /\ d'.IPAddress = reply'.IpV4)]_vars

\* the values a Create stored are still there after a later Remove
C14_Witness ==
    /\ call.op = "Remove" /\ call.err.nil
    /\ d.InstanceID = "vm-2" /\ d.IPAddress = "10.0.0.1"

----------------------------------------------------------------------------
(* C15 *)

\* the last thing that happened is this Create's key generation, and the
\* generation or the read of the public key failed
KeyFailed ==
    /\ call.op = "Create"
    /\ "generate" \in DOMAIN reply
    /\ ~reply.generate.nil \/ ~reply.read.nil

KeyError == IF ~reply.generate.nil THEN reply.generate ELSE reply.read

\* C15: when key generation or reading the public key back fails, Create
\* has returned that error in the same step, having issued no provider
\* create request, no state query and no SSH request, and that step left
\* the identifier and the address as they were.
C15_KeyFailureReturnsAtOnce ==
    /\ [](KeyFailed =>
            /\ call.done /\ pc = "idle"
            /\ call.err = KeyError
            /\ ~Issued("CreateVPSie") /\ ~Issued("GetVPSie") /\ ~SshAttempted
            /\ ~call.addReturned)
    /\ [][KeyFailed' => SameInstance]_vars

\* the public key of a second Create cannot be read: vm-1 is still recorded
C15_Witness ==
    /\ KeyFailed /\ ~reply.read.nil /\ call.done
    /\ call.err.msg = "read failed"
    /\ d.InstanceID = "vm-1"

----------------------------------------------------------------------------
(* C16 *)

\* the catalog of kind k was fetched and lists the configured identifier
Listed(k) == cat[k].err.nil /\ Configured[k] \in Range(cat[k].entries)

KindLabel == [image |-> "Image ID ", datacenter |-> "Datacenter ID ",
              offer |-> "Offer ID "]

\* the error is the one the check of kind k gives
ErrorOfKind(err, k) ==
    IF ~cat[k].err.nil THEN err = cat[k].err
    ELSE ~err.nil /\ HasPrefix(err.msg, KindLabel[k])

\* C16: PreCreateCheck fetches the image catalog, then the datacenter
\* catalog, then the offer catalog, each at most once and in that order,
\* and stops at the first kind whose check fails: the requests it issued
\* are exactly the fetches up to and including that kind, the error is that
\* kind's, and it returns success when no kind fails.  Every invocation
\* fetches anew.
C16_FirstFailureStops ==
    call.op = "PreCreateCheck" =>
        IF ~Listed("image")
        THEN /\ log = <<Req("GetImages", "")>>
             /\ ErrorOfKind(call.err, "image")
             /\ ~cat.datacenter.fetched /\ ~cat.offer.fetched
        ELSE IF ~Listed("datacenter")
        THEN /\ log = <<Req("GetImages", ""), Req("GetDatacenters", "")>>
             /\ ErrorOfKind(call.err, "datacenter")
             /\ cat.datacenter.fetched /\ ~cat.offer.fetched
        ELSE /\ log = <<Req("GetImages", ""), Req("GetDatacenters", ""),
                        Req("GetOffers", "")>>
             /\ cat.offer.fetched
             /\ IF Listed("offer") THEN call.err.nil
                ELSE ErrorOfKind(call.err, "offer")

\* the image is listed and the datacenter catalog cannot be fetched
C16_Witness ==
    /\ call.op = "PreCreateCheck" /\ Listed("image")
    /\ cat.datacenter.fetched /\ ~cat.datacenter.err.nil
    /\ Len(log) = 2 /\ call.err = TransportError

----------------------------------------------------------------------------
(* C17 *)

\* C17: for every provider response Stop and Kill give the same outcome;
\* and whichever of the two ran, in whatever state of the record, it issued
\* the one shutdown request for the recorded identifier and returned what
\* the other returns on the response it received: the request's error, else
\* the provider's error code when the error flag is set, else success.
C17_StopIsKill ==
    /\ \A a \in ShutdownReplies : StopResult(a) = KillResult(a)
    /\ call.op \in {"Stop", "Kill"} =>
        /\ log = <<Req("ShutdownVPSie", d.InstanceID)>>
        /\ call.err = StopResult(reply) /\ call.err = KillResult(reply)
        /\ call.ret = ""
        /\ ~reply.err.nil => call.err = reply.err
        /\ (reply.err.nil /\ reply.Error) =>
               (~call.err.nil /\ call.err.msg = reply.ErrorCode)
        /\ (reply.err.nil /\ ~reply.Error) => call.err.nil

\* a Kill of a created instance that the provider refused with a code
C17_Witness ==
    /\ call.op = "Kill" /\ d.InstanceID = "vm-1"
    /\ reply.err.nil /\ reply.Error /\ reply.ErrorCode = "E_BUSY"
    /\ call.err.msg = "E_BUSY"

----------------------------------------------------------------------------
(* C18 *)

ProviderRequest(op) ==
    IF op = "GetState" THEN "GetVPSie" ELSE RequestOf(op)

\* C18: a GetState, Start, Stop, Restart, Kill or Remove that has run has
\* issued exactly one request, its own, for the recorded identifier,
\* whatever the reply and whatever ran before; each state poll of a Create
\* issues exactly one state query; and a Create issues at most one provider
\* create request.
C18_OneRequestPerCall ==
    /\ [](call.op \in {"GetState", "Start", "Stop", "Restart", "Kill", "Remove"} =>
            /\ Len(log) = 1
            /\ log[1] = Req(ProviderRequest(call.op), d.InstanceID))
    /\ [](call.op = "Create" =>
            /\ Count(log, "CreateVPSie") <= 1
            /\ (Bootstrapping \/ call.addReturned) => Count(log, "CreateVPSie") = 1)
    /\ [][pc = "waitRunning" =>
            /\ Len(log') = Len(log) + 1
            /\ log'[Len(log')] = Req("GetVPSie", d.InstanceID)]_vars

\* a Start of a created instance whose request failed
C18_Witness ==
    /\ call.op = "Start" /\ ~reply.err.nil /\ call.err = reply.err
    /\ Len(log) = 1 /\ d.InstanceID = "vm-1"

----------------------------------------------------------------------------
(* C19 *)

\* this Create's provider create succeeded with an address of "" or "0"
NoAddress ==
    /\ call.op = "Create"
    /\ loc.instance.err.nil /\ loc.instance.Id # ""
    /\ loc.instance.IpV4 \in {"", "0"}

\* C19: in a Create whose create response carried the address "" or "0",
\* no SSH client is ever built and no SSH command run, so every poll of the
\* SSH wait fails, the append is never reached, and once the provider has
\* reported Running addSshKeyToServer returns, after MaxAttempts SSH polls,
\* the SSH-phase error.
C19_NoAddressNoSsh ==
    NoAddress =>
        /\ ~SshAttempted /\ AppendCount = 0
        /\ pc # "append" /\ ~call.ssh
        /\ call.noopFailed = call.sshPolls
        /\ (call.addReturned /\ call.running) =>
            /\ call.sshPolls = MaxAttempts
            /\ ~call.addErr.nil
            /\ HasPrefix(call.addErr.msg, SshPhase)

\* address "0", Running seen, and the SSH wait used up
C19_Witness ==
    /\ NoAddress /\ d.IPAddress = "0"
    /\ call.addReturned /\ call.running
    /\ call.sshPolls = MaxAttempts /\ Len(log) = 3

====
